---- MODULE Spec2Model ----
(***************************************************************************)
(* Model of the recording vector store server (src/server): the Store      *)
(* lifecycle (load_index, initialize_or_update), the bounded per-item       *)
(* pipeline run in worker threads behind a 5-slot semaphore, and the HTTP   *)
(* handlers that trigger ingestion and query the index.                     *)
(*                                                                          *)
(* Seven specifications share the same actions:                             *)
(*   Spec     - initialize_or_update is invoked directly, one call at a     *)
(*              time, by a caller that respects the caller contract         *)
(*              (never while the state is loading/creating/updating),       *)
(*              with few recordings in the cloud;                           *)
(*   SpecSeq  - as Spec, with batches of more than one recording;           *)
(*   SpecPool - one direct call, more recordings in the cloud than the      *)
(*              semaphore has slots, nothing in the uploads directory;      *)
(*   SpecQuery - one direct call with few recordings, and Store.query       *)
(*              calls at any moment;                                        *)
(*   SpecHttp - the server: load_index runs as a background task, ingestion *)
(*              is triggered through init_or_update_store, and the          *)
(*              after_serving hook may run at any moment;                   *)
(*   SpecLive - SpecPool under fair scheduling;                             *)
(*   SpecHang - SpecLive where external calls of item jobs may hang.        *)
(***************************************************************************)
EXTENDS Integers, Sequences, FiniteSets, TLC

\* ---------------------------------------------------------------- bounds
MaxItems == 6      \* recordings in the cloud under SpecPool
FewItems == 1      \* recordings in the cloud under Spec, SpecQuery, SpecHttp
SeqItems == 2      \* recordings in the cloud under SpecSeq
MaxUploads == 2    \* files in the uploads directory at startup
MaxRuns == 2       \* invocations of initialize_or_update, trigger requests
MaxFaults == 1     \* external calls that raise (or deviate) in one behaviour
MaxHung == 4       \* item jobs of a batch that never return

\* ------------------------------------------------------- program constants
SemCapacity == 5   \* asyncio.BoundedSemaphore(5)

\* State enum (store.py:31-38)
UNINITIALIZED == "uninitialized"
CREATING == "creating"
UPDATING == "updating"
LOADING == "loading"
READY == "ready"
ERROR == "failed"

\* Source enum (store.py:41-44)
DAILY == "daily"
UPLOADS == "uploads"

None == "None"

Runs == 1..MaxRuns
RecKeys == 1..MaxItems
UpKeys == (MaxItems + 1)..(MaxItems + MaxUploads)

VARIABLES
    status,        \* Store.status: [state, message]
    index,         \* Store.index: [loaded, docs]; docs counts documents per key
    persisted,     \* index directory on disk: [exists, docs]
    transcripts,   \* transcripts directory: set of keys with a <key>.txt file
    uploadsDir,    \* uploads directory: set of [key, ext] files
    recordingsDir, \* recordings directory: set of keys with a <key>.wav file
    transcriber,   \* Store.transcriber: "whisper" or "deepgram"
    cloudRecordings, \* number of recordings the cloud API holds for the room
    transcribeCalls, \* per invocation and key: calls of transcriber.transcribe
    shutdown,      \* position of the after_serving hook (index.py:34-42)
    loader,        \* position of the load_index background task
    run,           \* per invocation of initialize_or_update:
                   \*   [pc, source, phase, entered]
    batch,         \* per invocation: the items of the batch in flight
    jobs,          \* per invocation: one job record per item of the batch
    req,           \* per trigger request: position in init_or_update_store
    lastQuery,     \* the last Store.query call: [ready, result]
    faults         \* number of external failures injected so far

vars == <<status, index, persisted, transcripts, uploadsDir, recordingsDir,
          transcriber, cloudRecordings, transcribeCalls, shutdown, loader, run, batch, jobs, req, lastQuery, faults>>

Keys == RecKeys \cup UpKeys
NoDocs == [k \in Keys |-> 0]
Busy == {LOADING, CREATING, UPDATING}

\* Store.ready (store.py:327-329)
ready == index.loaded

\* Store.update_status (store.py:331-337): the state is kept when none is
\* given, the message is always overwritten (None when none is given).
update_status(old, state, message) ==
    [state |-> IF state # None THEN state ELSE old.state, message |-> message]

\* A transcriber that never asks for local audio
requires_local_audio_Never == FALSE

\* transcriber.requires_local_audio (whspr.py:21-22, dg.py:13-14)
requires_local_audio == transcriber = "whisper"

\* ------------------------------------------------------------ item jobs
\* A job record: st is the job's position (waiting for a semaphore slot,
\* running in the worker pool, hung in an external call that never returns,
\* done, raised), saw is the result of the
\* os.path.exists check on the transcript path made when the job starts,
\* ops is the set of external calls the job has made.
NewJob == [st |-> "waiting", saw |-> FALSE, ops |-> {}]

RecOutcomes == {"ok", "link_fail", "audio_fail", "transcribe_fail",
                "insert_fail"}
UpOutcomes == {"ok", "extract_fail", "transcribe_fail", "insert_fail"}

Outcomes == RecOutcomes \cup UpOutcomes

AudioFile(k) == [key |-> k, ext |-> "wav"]
VideoFile(k) == [key |-> k, ext |-> "mp4"]

Effect(res, ops, tr, ix, up, rd) ==
    [res |-> res, ops |-> ops, tr |-> tr, ix |-> ix, up |-> up, rd |-> rd]

\* VectorStoreIndex.insert of one document
insert(ix, k) == [ix EXCEPT !.docs[k] = @ + 1]

\* A save that attempts the insert without testing the handle: with no
\* handle the call on None raises
save_and_index_transcript_NoReadyTest(k, fails) ==
    [tr |-> transcripts \cup {k},
     ix |-> IF ready /\ ~fails THEN insert(index, k) ELSE index,
     ops |-> {"write", "insert"},
     raised |-> ~ready \/ fails]

\* Store.save_and_index_transcript (store.py:302-315) for the transcript of
\* key k: the file is written, then the document is inserted if the handle
\* is loaded; fails says whether that insert raises.
save_and_index_transcript(k, fails) ==
    [tr |-> transcripts \cup {k},
     ix |-> IF ready /\ ~fails THEN insert(index, k) ELSE index,
     ops |-> {"write"} \cup (IF ready THEN {"insert"} ELSE {}),
     raised |-> ready /\ fails]

\* Store.transcribe_and_index_recording after the transcript-exists check
\* (store.py:269-300) together with Store.save_and_index_transcript
\* (store.py:302-315), for the recording whose file name is k; out is the
\* outcome of the external calls. The transcriber is called with the access
\* link and with audio_path, which is None unless the transcriber requires
\* local audio (store.py:270-283): "audio_path" among the calls says that a
\* path was passed.
transcribe_new_recording(k, out) ==
    LET produce == requires_local_audio /\ k \notin recordingsDir
        opsA == IF produce THEN {"link", "download", "extract"} ELSE {"link"}
        opsT == IF requires_local_audio THEN {"transcribe", "audio_path"}
                                        ELSE {"transcribe"}
        upA == IF produce THEN uploadsDir \cup {AudioFile(k)} ELSE uploadsDir
    IN  IF out = "link_fail"
          THEN Effect("raised", {"link"}, transcripts, index, uploadsDir,
                      recordingsDir)
        ELSE IF produce /\ out = "audio_fail"
          THEN Effect("raised", opsA, transcripts, index,
                      uploadsDir \cup {VideoFile(k)}, recordingsDir)
        ELSE IF out = "transcribe_fail"
          THEN Effect("done", opsA \cup opsT, transcripts, index,
                      upA, recordingsDir)
        ELSE LET s == save_and_index_transcript(k, out = "insert_fail")
             IN  IF s.raised
                   THEN Effect("raised", opsA \cup opsT \cup s.ops,
                               s.tr, s.ix, upA, recordingsDir)
                   ELSE Effect("done", opsA \cup opsT \cup s.ops,
                               s.tr, s.ix,
                               IF produce THEN uploadsDir \ {AudioFile(k)}
                                          ELSE uploadsDir,
                               IF requires_local_audio THEN recordingsDir \ {k}
                                                       ELSE recordingsDir)

\* The job without the transcript-exists check
transcribe_and_index_recording_NoCheck(k, saw, out) ==
    transcribe_new_recording(k, out)

\* Store.transcribe_and_index_recording (store.py:248-300). The room-name
\* guard (store.py:254-255) never fires: fetch_recordings asks the API for the
\* configured room only (daily.py:42-43).
transcribe_and_index_recording(k, saw, out) ==
    IF saw
      THEN Effect("done", {}, transcripts, index, uploadsDir, recordingsDir)
      ELSE transcribe_new_recording(k, out)

\* Store.transcribe_and_index_file (store.py:214-246) together with
\* Store.save_and_index_transcript, for the uploaded video file v.
transcribe_and_index_file(v, saw, out) ==
    LET k == v.key
        audio == AudioFile(k)
        extract == audio \notin uploadsDir
        opsE == IF extract THEN {"extract"} ELSE {}
        upT == (uploadsDir \cup {audio}) \ {v}
    IN  IF saw
          THEN IF v \in uploadsDir
                 THEN Effect("done", {"rm_video"}, transcripts, index,
                             uploadsDir \ {v}, recordingsDir)
                 ELSE Effect("raised", {"rm_video"}, transcripts, index,
                             uploadsDir, recordingsDir)
        ELSE IF extract /\ (out = "extract_fail" \/ v \notin uploadsDir)
          THEN Effect("raised", {"extract"}, transcripts, index, uploadsDir,
                      recordingsDir)
        ELSE IF v \notin uploadsDir
          THEN Effect("raised", {"rm_video"}, transcripts, index, uploadsDir,
                      recordingsDir)
        ELSE IF out = "transcribe_fail"
          THEN Effect("raised",
                      opsE \cup {"rm_video", "transcribe", "audio_path"},
                      transcripts, index, upT, recordingsDir)
        ELSE LET s == save_and_index_transcript(k, out = "insert_fail")
             IN  IF s.raised
                   THEN Effect("raised",
                               opsE \cup {"rm_video", "transcribe",
                                          "audio_path"} \cup s.ops,
                               s.tr, s.ix, upT, recordingsDir)
                   ELSE Effect("done",
                               opsE \cup {"rm_video", "transcribe",
                                          "audio_path", "rm_audio"} \cup s.ops,
                               s.tr, s.ix, upT \ {audio}, recordingsDir)

\* The outcomes that can happen to a job in the current state: a failure of a
\* call the job does not reach is not a distinct outcome.
Applicable(src, item, saw, out) ==
    IF saw THEN out = "ok"
    ELSE IF src = DAILY
      THEN /\ out \in RecOutcomes
           /\ out = "audio_fail"
                => requires_local_audio /\ item.key \notin recordingsDir
           /\ out = "insert_fail" => ready
      ELSE /\ out \in UpOutcomes
           /\ out = "extract_fail"
                => AudioFile(item.key) \notin uploadsDir /\ item \in uploadsDir
           /\ out \in {"transcribe_fail", "insert_fail"} => item \in uploadsDir
           /\ out = "insert_fail" => ready

\* The jobs that hold a semaphore slot
Running(js) == {i \in DOMAIN js : js[i].st \in {"running", "hung"}}
Hung(js) == {i \in DOMAIN js : js[i].st = "hung"}
Waiting(js) == {i \in DOMAIN js : js[i].st = "waiting"}
Raised(js) == {i \in DOMAIN js : js[i].st = "raised"}

\* os.path.exists(transcript_file_path) (store.py:225, 266)
transcript_exists(k, tr) == k \in tr

\* A semaphore whose slots are never released: a job that ended still
\* counts against the capacity
Admit_NoRelease(js, items, tr) ==
    IF Waiting(js) # {}
         /\ Cardinality({i \in DOMAIN js : js[i].st # "waiting"}) < SemCapacity
      THEN LET i == CHOOSE w \in Waiting(js) : \A x \in Waiting(js) : w <= x
           IN  [js EXCEPT ![i] = [st |-> "running",
                                  saw |-> transcript_exists(items[i].key, tr),
                                  ops |-> {}]]
      ELSE js

\* The same without the capacity of the semaphore
Admit_NoLimit(js, items, tr) ==
    IF Waiting(js) # {}
      THEN LET i == CHOOSE w \in Waiting(js) : \A x \in Waiting(js) : w <= x
           IN  [js EXCEPT ![i] = [st |-> "running",
                                  saw |-> transcript_exists(items[i].key, tr),
                                  ops |-> {}]]
      ELSE js

\* `async with sem` in index_daily_recording / index_uploaded_file
\* (store.py:201-212): the waiting task that is first in line takes a free
\* slot and hands its item to the worker pool, where the transcript-exists
\* check (store.py:225, 266) is the first thing the job does that matters.
Admit(js, items, tr) ==
    IF Waiting(js) # {} /\ Cardinality(Running(js)) < SemCapacity
      THEN LET i == CHOOSE w \in Waiting(js) : \A x \in Waiting(js) : w <= x
           IN  [js EXCEPT ![i] = [st |-> "running",
                                  saw |-> transcript_exists(items[i].key, tr),
                                  ops |-> {}]]
      ELSE js

\* Admit repeated until no waiting task can take a slot. The result of one
\* Admit is bound to a variable so that each step is evaluated once.
RECURSIVE AdmitAll(_, _, _)
AdmitAll(js, items, tr) ==
    CHOOSE all \in {IF next = js THEN js ELSE AdmitAll(next, items, tr) :
                      next \in {Admit(js, items, tr)}} : TRUE

\* ------------------------------------------------------------------ Init
\* The directories at startup, as an earlier process may have left them: the
\* first n upload keys as .mp4 files and no transcript; a single .mov file;
\* or every upload key as an .mp4 file with the first one transcribed already.
Mp4Uploads(n) == {[key |-> MaxItems + i, ext |-> "mp4"] : i \in 1..n}

InitialDisk ==
    {[uploads |-> Mp4Uploads(n), transcripts |-> {}] : n \in 0..MaxUploads}
    \cup {[uploads |-> {[key |-> MaxItems + 1, ext |-> "mov"]},
            transcripts |-> {}]}
    \cup {[uploads |-> Mp4Uploads(MaxUploads), transcripts |-> {MaxItems + 1}]}

\* The documents of an index built from the transcripts tr
DocsOf(tr) == [k \in Keys |-> IF k \in tr THEN 1 ELSE 0]

\* The state after `store = Store(...)` (index.py:24, store.py:56-79): no
\* index handle, status uninitialized; the index directory may or may not
\* hold an index persisted by an earlier process.
Init ==
    /\ status = [state |-> UNINITIALIZED, message |-> "The store is uninitialized"]
    /\ index = [loaded |-> FALSE, docs |-> NoDocs]
    /\ \E d \in InitialDisk :
         /\ transcripts = d.transcripts
         /\ uploadsDir = d.uploads
         /\ persisted \in {[exists |-> FALSE, docs |-> NoDocs],
                           [exists |-> TRUE, docs |-> DocsOf(d.transcripts)]}
    /\ recordingsDir = {}
    /\ transcriber \in {"whisper", "deepgram"}
    /\ cloudRecordings \in 0..MaxItems
    /\ transcribeCalls = [r \in Runs |-> NoDocs]
    /\ shutdown = "none"
    /\ loader = "init"
    /\ run = [r \in Runs |-> [pc |-> "idle", source |-> None, phase |-> None,
                              entered |-> None]]
    /\ batch = [r \in Runs |-> << >>]
    /\ jobs = [r \in Runs |-> << >>]
    /\ req = [r \in Runs |-> "none"]
    /\ lastQuery = [ready |-> FALSE, result |-> None]
    /\ faults = 0

\* ------------------------------------------------------------ load_index
\* Store.load_index, first statement (store.py:91)
LoadBegin ==
    /\ loader = "init"
    /\ loader' = "loading"
    /\ status' = update_status(status, LOADING, "Loading index")
    /\ UNCHANGED <<index, persisted, transcripts, uploadsDir, recordingsDir,
                   transcriber, cloudRecordings, transcribeCalls, shutdown,
                   run, batch, jobs, req, lastQuery, faults>>

LoadOutcomes == {"found", "not_found", "value_error", "error"}

\* Store.load_index, the try block and what follows it (store.py:92-113)
LoadEnd(out) ==
    /\ loader = "loading"
    /\ out \in LoadOutcomes
    /\ out = "found" => persisted.exists
    /\ out = "not_found" => ~persisted.exists
    /\ out \in {"value_error", "error"} => faults < MaxFaults
    /\ faults' = IF out \in {"value_error", "error"} THEN faults + 1 ELSE faults
    /\ IF out = "found"
         THEN /\ index' = [loaded |-> TRUE, docs |-> persisted.docs]
              /\ status' = update_status(status, READY,
                                         "Index loaded and ready to query")
              /\ loader' = "done"
         ELSE IF out = "error"
           THEN /\ loader' = "failed"
                /\ UNCHANGED <<index, status>>
           ELSE /\ status' = update_status(status, UNINITIALIZED, None)
                /\ loader' = "done"
                /\ UNCHANGED index
    /\ UNCHANGED <<persisted, transcripts, uploadsDir, recordingsDir,
                   transcriber, cloudRecordings, transcribeCalls, shutdown,
                   run, batch, jobs, req, lastQuery>>

\* ------------------------------------------------- initialize_or_update
\* Store.initialize_or_update up to its first status write
\* (store.py:119-120 when no index exists, store.py:131 otherwise)
Ended(q) == run[q].pc = "done" /\ Running(jobs[q]) \cup Waiting(jobs[q]) = {}

\* A start that picks the phase from the status instead of the handle
Begin_ByState(r, src) ==
    /\ batch' = [q \in Runs |-> IF Ended(q) THEN << >> ELSE batch[q]]
    /\ jobs' = [q \in Runs |-> IF Ended(q) THEN << >> ELSE jobs[q]]
    /\ transcribeCalls' = [q \in Runs |-> IF Ended(q) THEN NoDocs
                                                      ELSE transcribeCalls[q]]
    /\ status' = IF status.state # READY
                   THEN update_status(status, CREATING, "Creating index")
                   ELSE update_status(status, UPDATING, "Updating index")
    /\ run' = [run EXCEPT ![r] = [pc |-> "listing", source |-> src,
                                  phase |-> IF status.state # READY
                                              THEN "create" ELSE "update",
                                  entered |-> IF status.state # READY
                                                THEN "create" ELSE "update"]]

Begin(r, src) ==
    /\ batch' = [q \in Runs |-> IF Ended(q) THEN << >> ELSE batch[q]]
    /\ jobs' = [q \in Runs |-> IF Ended(q) THEN << >> ELSE jobs[q]]
    /\ transcribeCalls' = [q \in Runs |-> IF Ended(q) THEN NoDocs
                                                      ELSE transcribeCalls[q]]
    /\ status' = IF ~ready
                   THEN update_status(status, CREATING, "Creating index")
                   ELSE update_status(status, UPDATING, "Updating index")
    /\ run' = [run EXCEPT ![r] = [pc |-> "listing", source |-> src,
                                  phase |-> IF ~ready THEN "create"
                                                      ELSE "update",
                                  entered |-> IF ~ready THEN "create"
                                                        ELSE "update"]]

\* An except block that returns without the status update
Fail_KeepsStatus(r) ==
    /\ run' = [run EXCEPT ![r].pc = "done"]
    /\ UNCHANGED status

\* The except blocks of initialize_or_update (store.py:123-127, 139-144)
Fail(r) ==
    /\ status' = IF run[r].phase = "create"
                   THEN update_status(status, ERROR, "Failed to create index")
                   ELSE update_status(status, ERROR,
                                      "Failed to update existing index")
    /\ run' = [run EXCEPT ![r].pc = "done"]

\* A direct call of initialize_or_update by a caller that keeps the caller
\* contract: load_index has been started and no ingestion is in progress.
Call(r, src) ==
    /\ run[r].pc = "idle"
    /\ \A q \in Runs : q < r => run[q].pc = "done"
    /\ loader # "init"
    /\ status.state \notin Busy
    /\ src \in {DAILY, UPLOADS}
    /\ Begin(r, src)
    /\ UNCHANGED <<index, persisted, transcripts, uploadsDir, recordingsDir,
                   transcriber, cloudRecordings, shutdown, loader, req,
                   lastQuery, faults>>

\* media.get_uploaded_file_paths (media.py:27-39): the possible results. The
\* loop breaks after the first .mp4 file it could open, so the list holds at
\* most one path; iterdir yields the files in arbitrary order.
get_uploaded_file_paths ==
    LET mp4 == {f \in uploadsDir : f.ext = "mp4"}
    IN  IF mp4 = {} THEN {<< >>} ELSE {<<f>> : f \in mp4}

\* The extension filter of generate_upload_transcripts (store.py:161-163)
RECURSIVE VideoPaths(_)
VideoPaths(paths) ==
    IF paths = << >> THEN << >>
    ELSE IF Head(paths).ext \notin {"mp4", "mov"} THEN VideoPaths(Tail(paths))
    ELSE <<Head(paths)>> \o VideoPaths(Tail(paths))

\* daily.fetch_recordings (daily.py:32-62) when the request succeeds: the
\* recordings of the room, at most limit of them.
fetch_recordings(limit) ==
    LET n == IF cloudRecordings < limit THEN cloudRecordings ELSE limit
    IN  [i \in 1..n |-> [key |-> i, ext |-> "url"]]

\* The tasks of a batch are created and gathered (store.py:164-167, 195-199)
StartBatch(r, items) ==
    /\ batch' = [batch EXCEPT ![r] = items]
    /\ jobs' = [jobs EXCEPT ![r] =
                  AdmitAll([i \in DOMAIN items |-> NewJob], items, transcripts)]
    /\ run' = [run EXCEPT ![r].pc = "awaiting"]

\* Store.index_daily_recordings up to the gather (store.py:188-199)
DispatchDaily(r, limit) ==
    /\ run[r].pc = "listing"
    /\ run[r].source = DAILY
    /\ StartBatch(r, fetch_recordings(limit))
    /\ UNCHANGED <<status, index, persisted, transcripts, uploadsDir,
                   recordingsDir, transcriber, cloudRecordings,
                   transcribeCalls, shutdown, loader, req, lastQuery, faults>>

\* Store.generate_upload_transcripts up to the gather (store.py:154-167)
DispatchUploads(r) ==
    /\ run[r].pc = "listing"
    /\ run[r].source = UPLOADS
    /\ \E paths \in get_uploaded_file_paths : StartBatch(r, VideoPaths(paths))
    /\ UNCHANGED <<status, index, persisted, transcripts, uploadsDir,
                   recordingsDir, transcriber, cloudRecordings,
                   transcribeCalls, shutdown, loader, req, lastQuery, faults>>

\* Listing the items raises (fetch_recordings: no API key, HTTP error,
\* timeout); the exception is caught by initialize_or_update.
ListFails(r) ==
    /\ run[r].pc = "listing"
    /\ run[r].source = DAILY
    /\ faults < MaxFaults
    /\ faults' = faults + 1
    /\ Fail(r)
    /\ UNCHANGED <<index, persisted, transcripts, uploadsDir, recordingsDir,
                   transcriber, cloudRecordings, transcribeCalls, shutdown,
                   loader, batch, jobs, req, lastQuery>>

\* An item job that reports its own failure in the status
JobFinish_WritesStatus(r, i, out) ==
    /\ i \in DOMAIN jobs[r]
    /\ jobs[r][i].st = "running"
    /\ Applicable(run[r].source, batch[r][i], jobs[r][i].saw, out)
    /\ out # "ok" => faults < MaxFaults
    /\ faults' = IF out # "ok" THEN faults + 1 ELSE faults
    /\ \E e \in {IF run[r].source = DAILY
                  THEN transcribe_and_index_recording(batch[r][i].key,
                                                      jobs[r][i].saw, out)
                  ELSE transcribe_and_index_file(batch[r][i],
                                                 jobs[r][i].saw, out)} :
           /\ transcripts' = e.tr
           /\ index' = e.ix
           /\ uploadsDir' = e.up
           /\ recordingsDir' = e.rd
           /\ jobs' = [jobs EXCEPT ![r] =
                         Admit([@ EXCEPT ![i].st = e.res, ![i].ops = e.ops],
                               batch[r], e.tr)]
           /\ transcribeCalls' =
                 IF "transcribe" \in e.ops
                   THEN [transcribeCalls EXCEPT ![r][batch[r][i].key] = @ + 1]
                   ELSE transcribeCalls
           /\ status' = IF out = "ok" THEN status
                         ELSE update_status(status, ERROR, "Failed to index item")
    /\ UNCHANGED <<persisted, transcriber, cloudRecordings, shutdown,
                   loader, run, batch, req, lastQuery>>

\* One item job runs to its end in its worker thread, its task releases the
\* semaphore slot and the next waiting task takes it (store.py:201-212).
JobFinish(r, i, out) ==
    /\ i \in DOMAIN jobs[r]
    /\ jobs[r][i].st = "running"
    /\ Applicable(run[r].source, batch[r][i], jobs[r][i].saw, out)
    /\ out # "ok" => faults < MaxFaults
    /\ faults' = IF out # "ok" THEN faults + 1 ELSE faults
    /\ \E e \in {IF run[r].source = DAILY
                  THEN transcribe_and_index_recording(batch[r][i].key,
                                                      jobs[r][i].saw, out)
                  ELSE transcribe_and_index_file(batch[r][i],
                                                 jobs[r][i].saw, out)} :
           /\ transcripts' = e.tr
           /\ index' = e.ix
           /\ uploadsDir' = e.up
           /\ recordingsDir' = e.rd
           /\ jobs' = [jobs EXCEPT ![r] =
                         Admit([@ EXCEPT ![i].st = e.res, ![i].ops = e.ops],
                               batch[r], e.tr)]
           /\ transcribeCalls' =
                 IF "transcribe" \in e.ops
                   THEN [transcribeCalls EXCEPT ![r][batch[r][i].key] = @ + 1]
                   ELSE transcribeCalls
    /\ UNCHANGED <<status, persisted, transcriber, cloudRecordings, shutdown,
                   loader, run, batch, req, lastQuery>>

\* An external call of an item job never returns: the download and the
\* transcription calls have no timeout (media.py:50-66, store.py:238, 283).
\* The job stays in its worker thread and its task keeps the semaphore slot
\* (store.py:204-206, 210-212).
JobHang(r, i) ==
    /\ i \in DOMAIN jobs[r]
    /\ jobs[r][i].st = "running"
    /\ ~jobs[r][i].saw
    /\ Cardinality(Hung(jobs[r])) < MaxHung
    /\ jobs' = [jobs EXCEPT ![r][i].st = "hung"]
    /\ UNCHANGED <<status, index, persisted, transcripts, uploadsDir,
                   recordingsDir, transcriber, cloudRecordings,
                   transcribeCalls, shutdown, loader, run, batch, req,
                   lastQuery, faults>>

\* asyncio.gather re-raises the first exception of an item job
\* (store.py:167, 199); the other jobs of the batch keep going.
BatchRaise(r) ==
    /\ run[r].pc = "awaiting"
    /\ Raised(jobs[r]) # {}
    /\ Fail(r)
    /\ UNCHANGED <<index, persisted, transcripts, uploadsDir, recordingsDir,
                   transcriber, cloudRecordings, transcribeCalls, shutdown,
                   loader, batch, jobs, req, lastQuery, faults>>

AllDone(r) == \A i \in DOMAIN jobs[r] : jobs[r][i].st = "done"

\* A create_index that builds and persists the index without keeping it
create_index_NoHandle == [loaded |-> FALSE, docs |-> DocsOf(transcripts)]

\* Store.create_index (store.py:169-186): the index built from every
\* transcript file, persisted, and installed as the handle. The directory
\* reader raises ValueError when the transcripts directory holds no file, so
\* a creation over no transcript always fails (CreateIndexFails).
create_index == [loaded |-> TRUE, docs |-> DocsOf(transcripts)]

\* A creation that returns READY right after create_index
CreateIndex_ToReady(r) ==
    /\ run[r].pc = "awaiting"
    /\ run[r].phase = "create"
    /\ AllDone(r)
    /\ transcripts # {}
    /\ index' = create_index
    /\ persisted' = [exists |-> TRUE, docs |-> create_index.docs]
    /\ status' = update_status(status, READY, "Index ready to query")
    /\ run' = [run EXCEPT ![r].pc = "done"]
    /\ UNCHANGED <<transcripts, uploadsDir, recordingsDir, transcriber,
                   cloudRecordings, transcribeCalls, shutdown, loader, batch,
                   jobs, req, lastQuery, faults>>

\* generate_index after the gather (store.py:152), then the fall through to
\* the update phase (store.py:131)
CreateIndex(r) ==
    /\ run[r].pc = "awaiting"
    /\ run[r].phase = "create"
    /\ AllDone(r)
    /\ transcripts # {}
    /\ index' = create_index
    /\ persisted' = [exists |-> TRUE, docs |-> create_index.docs]
    /\ status' = update_status(status, UPDATING, "Updating index")
    /\ run' = [run EXCEPT ![r].pc = "listing", ![r].phase = "update"]
    /\ UNCHANGED <<transcripts, uploadsDir, recordingsDir, transcriber,
                   cloudRecordings, transcribeCalls, shutdown, loader, batch,
                   jobs, req, lastQuery, faults>>

\* A failure of create_index that escapes initialize_or_update
CreateIndexFails_Propagates(r) ==
    /\ run[r].pc = "awaiting"
    /\ run[r].phase = "create"
    /\ AllDone(r)
    /\ transcripts # {} => faults < MaxFaults
    /\ faults' = IF transcripts # {} THEN faults + 1 ELSE faults
    /\ run' = [run EXCEPT ![r].pc = "crashed"]
    /\ UNCHANGED <<status, index, persisted, transcripts, uploadsDir,
                   recordingsDir, transcriber, cloudRecordings,
                   transcribeCalls, shutdown, loader, batch, jobs, req,
                   lastQuery>>

\* A create_index that installs the handle before the step that raises
CreateIndexFails_HandleFirst(r) ==
    /\ run[r].pc = "awaiting"
    /\ run[r].phase = "create"
    /\ AllDone(r)
    /\ transcripts # {} => faults < MaxFaults
    /\ faults' = IF transcripts # {} THEN faults + 1 ELSE faults
    /\ index' = create_index
    /\ Fail(r)
    /\ UNCHANGED <<persisted, transcripts, uploadsDir, recordingsDir,
                   transcriber, cloudRecordings, transcribeCalls, shutdown,
                   loader, batch, jobs, req, lastQuery>>

\* create_index raises (reading the transcripts, building or persisting); the
\* exception is caught at store.py:123-127. The handle is assigned last
\* (store.py:186), so it is not set when any step before it raises.
CreateIndexFails(r) ==
    /\ run[r].pc = "awaiting"
    /\ run[r].phase = "create"
    /\ AllDone(r)
    /\ transcripts # {} => faults < MaxFaults
    /\ faults' = IF transcripts # {} THEN faults + 1 ELSE faults
    /\ Fail(r)
    /\ UNCHANGED <<index, persisted, transcripts, uploadsDir, recordingsDir,
                   transcriber, cloudRecordings, transcribeCalls, shutdown,
                   loader, batch, jobs, req, lastQuery>>

\* The end of the update phase (store.py:137-138)
Persist(r) ==
    /\ run[r].pc = "awaiting"
    /\ run[r].phase = "update"
    /\ AllDone(r)
    /\ persisted' = [exists |-> TRUE, docs |-> index.docs]
    /\ status' = update_status(status, READY, "Index ready to query")
    /\ run' = [run EXCEPT ![r].pc = "done"]
    /\ UNCHANGED <<index, transcripts, uploadsDir, recordingsDir, transcriber,
                   cloudRecordings, transcribeCalls, shutdown, loader, batch,
                   jobs, req, lastQuery, faults>>

\* storage_context.persist raises (store.py:137, 139-144)
PersistFails(r) ==
    /\ run[r].pc = "awaiting"
    /\ run[r].phase = "update"
    /\ AllDone(r)
    /\ faults < MaxFaults
    /\ faults' = faults + 1
    /\ Fail(r)
    /\ UNCHANGED <<index, persisted, transcripts, uploadsDir, recordingsDir,
                   transcriber, cloudRecordings, transcribeCalls, shutdown,
                   loader, batch, jobs, req, lastQuery>>

\* ------------------------------------------------------------- handlers
\* init_or_update_store up to `await request.get_data()` (index.py:88-93)
TriggerCheck(q) ==
    /\ req[q] = "none"
    /\ req' = [req EXCEPT ![q] = IF status.state \in Busy THEN "rejected"
                                                           ELSE "parsing"]
    /\ UNCHANGED <<status, index, persisted, transcripts, uploadsDir,
                   recordingsDir, transcriber, cloudRecordings,
                   transcribeCalls, shutdown, loader, run, batch, jobs,
                   lastQuery, faults>>

\* init_or_update_store after the await (index.py:94-117)
TriggerDispatch(q, src) ==
    /\ req[q] = "parsing"
    /\ src \in {DAILY, UPLOADS, "other"}
    /\ IF src = "other"
         THEN /\ req' = [req EXCEPT ![q] = "rejected"]
              /\ UNCHANGED run
         ELSE /\ req' = [req EXCEPT ![q] = "accepted"]
              /\ run' = [run EXCEPT ![q] = [pc |-> "scheduled", source |-> src,
                                            phase |-> None, entered |-> None]]
    /\ UNCHANGED <<status, index, persisted, transcripts, uploadsDir,
                   recordingsDir, transcriber, cloudRecordings,
                   transcribeCalls, shutdown, loader, batch, jobs, lastQuery,
                   faults>>

\* The background task added at index.py:116 starts running
RunBegin(q) ==
    /\ run[q].pc = "scheduled"
    /\ Begin(q, run[q].source)
    /\ UNCHANGED <<index, persisted, transcripts, uploadsDir, recordingsDir,
                   transcriber, cloudRecordings, shutdown, loader, req,
                   lastQuery, faults>>

\* The after_serving hook (index.py:34-42). Its first statement calls
\* store.destroy(), a method the Store class (store.py:54-337) does not
\* define: the call raises AttributeError, the hook ends there and the loop
\* that cancels the background tasks (index.py:41-42) is never reached. The
\* item jobs in the worker threads are not affected.
Shutdown ==
    /\ shutdown = "none"
    /\ shutdown' = "raised"
    /\ UNCHANGED <<status, index, persisted, transcripts, uploadsDir,
                   recordingsDir, transcriber, cloudRecordings,
                   transcribeCalls, loader, run, batch, jobs, req, lastQuery,
                   faults>>

\* A query that looks at the status instead of the handle
query_ByState(engine) ==
    IF status.state # READY THEN "not_ready" ELSE engine

\* Store.query (store.py:81-87)
query(engine) ==
    IF ~ready THEN "not_ready" ELSE engine

Query(engine) ==
    /\ engine \in {"answer", "engine_error"}
    /\ lastQuery' = [ready |-> index.loaded, result |-> query(engine)]
    /\ UNCHANGED <<status, index, persisted, transcripts, uploadsDir,
                   recordingsDir, transcriber, cloudRecordings,
                   transcribeCalls, shutdown, loader, run, batch, jobs, req,
                   faults>>

\* ------------------------------------------------------- specifications
\* The recordings in the cloud do not change during a behaviour; each
\* specification starts with at most as many as its max_videos limit.
InitFew == Init /\ cloudRecordings <= FewItems
InitSeq == Init /\ cloudRecordings <= SeqItems
InitPool == Init /\ uploadsDir = {} /\ transcripts = {}

Next ==
    \/ LoadBegin
    \/ \E out \in LoadOutcomes : LoadEnd(out)
    \/ \E r \in Runs, src \in {DAILY, UPLOADS} : Call(r, src)
    \/ \E r \in Runs : DispatchDaily(r, FewItems)
    \/ \E r \in Runs : DispatchUploads(r)
    \/ \E r \in Runs : ListFails(r)
    \/ \E r \in Runs, i \in 1..MaxItems, out \in Outcomes : JobFinish(r, i, out)
    \/ \E r \in Runs : BatchRaise(r)
    \/ \E r \in Runs : CreateIndex(r)
    \/ \E r \in Runs : CreateIndexFails(r)
    \/ \E r \in Runs : Persist(r)
    \/ \E r \in Runs : PersistFails(r)

Spec == InitFew /\ [][Next]_vars

NextSeq ==
    \/ LoadBegin
    \/ \E out \in LoadOutcomes : LoadEnd(out)
    \/ \E r \in Runs, src \in {DAILY, UPLOADS} : Call(r, src)
    \/ \E r \in Runs : DispatchDaily(r, SeqItems)
    \/ \E r \in Runs : DispatchUploads(r)
    \/ \E r \in Runs : ListFails(r)
    \/ \E r \in Runs, i \in 1..MaxItems, out \in Outcomes : JobFinish(r, i, out)
    \/ \E r \in Runs : BatchRaise(r)
    \/ \E r \in Runs : CreateIndex(r)
    \/ \E r \in Runs : CreateIndexFails(r)
    \/ \E r \in Runs : Persist(r)
    \/ \E r \in Runs : PersistFails(r)

SpecSeq == InitSeq /\ [][NextSeq]_vars

NextPool ==
    \/ LoadBegin
    \/ \E out \in LoadOutcomes : LoadEnd(out)
    \/ \E src \in {DAILY, UPLOADS} : Call(1, src)
    \/ DispatchDaily(1, MaxItems)
    \/ DispatchUploads(1)
    \/ ListFails(1)
    \/ \E i \in 1..MaxItems, out \in Outcomes : JobFinish(1, i, out)
    \/ BatchRaise(1)
    \/ CreateIndex(1)
    \/ CreateIndexFails(1)
    \/ Persist(1)
    \/ PersistFails(1)

SpecPool == InitPool /\ [][NextPool]_vars

NextQuery ==
    \/ LoadBegin
    \/ \E out \in LoadOutcomes : LoadEnd(out)
    \/ \E src \in {DAILY, UPLOADS} : Call(1, src)
    \/ DispatchDaily(1, FewItems)
    \/ DispatchUploads(1)
    \/ ListFails(1)
    \/ \E i \in 1..MaxItems, out \in Outcomes : JobFinish(1, i, out)
    \/ BatchRaise(1)
    \/ CreateIndex(1)
    \/ CreateIndexFails(1)
    \/ Persist(1)
    \/ PersistFails(1)
    \/ \E engine \in {"answer", "engine_error"} : Query(engine)

SpecQuery == InitFew /\ [][NextQuery]_vars

NextHttp ==
    \/ LoadBegin
    \/ \E out \in LoadOutcomes : LoadEnd(out)
    \/ \E q \in Runs : TriggerCheck(q)
    \/ \E q \in Runs, src \in {DAILY, UPLOADS, "other"} : TriggerDispatch(q, src)
    \/ \E q \in Runs : RunBegin(q)
    \/ \E r \in Runs : DispatchDaily(r, FewItems)
    \/ \E r \in Runs : DispatchUploads(r)
    \/ \E r \in Runs : ListFails(r)
    \/ \E r \in Runs, i \in 1..MaxItems, out \in Outcomes : JobFinish(r, i, out)
    \/ \E r \in Runs : BatchRaise(r)
    \/ \E r \in Runs : CreateIndex(r)
    \/ \E r \in Runs : CreateIndexFails(r)
    \/ \E r \in Runs : Persist(r)
    \/ \E r \in Runs : PersistFails(r)
    \/ Shutdown

SpecHttp == InitFew /\ [][NextHttp]_vars

\* A step of the invocation itself: of its coroutine or of one of its item
\* jobs
RunStep ==
    \/ DispatchDaily(1, MaxItems)
    \/ DispatchUploads(1)
    \/ ListFails(1)
    \/ \E i \in 1..MaxItems, out \in Outcomes : JobFinish(1, i, out)
    \/ BatchRaise(1)
    \/ CreateIndex(1)
    \/ CreateIndexFails(1)
    \/ Persist(1)
    \/ PersistFails(1)

\* Fair scheduling of one direct call: the event loop runs a task that can
\* run and a worker thread that is not blocked makes progress, so while
\* some step of the invocation is possible, one is eventually taken. An
\* external call returns or raises; which of the two is not a matter of
\* fairness.
FairRun == WF_vars(RunStep)

\* One direct call under fair scheduling, every external call returning or
\* raising
SpecLive == InitPool /\ [][NextPool]_vars /\ FairRun

\* The same where external calls of item jobs may never return
NextHang ==
    \/ NextPool
    \/ \E i \in 1..MaxItems : JobHang(1, i)

SpecHang == InitPool /\ [][NextHang]_vars /\ FairRun

TypeOK ==
    /\ status.state \in {UNINITIALIZED, LOADING, CREATING, UPDATING, READY, ERROR}
    /\ index.loaded \in BOOLEAN
    /\ transcripts \subseteq Keys
    /\ faults \in 0..MaxFaults

\* ---------------------------------------------------------------- claims
Done(j) == j.st \in {"done", "raised"}

\* The step in which job i of invocation r runs to its end
Finishes(r, i) ==
    /\ i \in DOMAIN jobs[r]
    /\ jobs[r][i].st = "running"
    /\ i \in DOMAIN jobs'[r]
    /\ Done(jobs'[r][i])

\* C1: when initialize_or_update returns, status.state is READY or ERROR,
\* never CREATING, UPDATING or LOADING.
C1_StateTotality ==
    [][\A r \in Runs :
          (run[r].pc # "done" /\ run'[r].pc = "done")
            => status'.state \in {READY, ERROR}]_vars

C1_Witness ==
    \E r, q \in Runs :
        /\ run[r].pc = "done" /\ run[r].source = DAILY
        /\ run[q].pc = "done" /\ run[q].source = UPLOADS
        /\ status.state = READY

\* C2: a job whose transcript file exists when the job starts resolves no
\* access link, downloads and extracts nothing, does not call transcribe,
\* writes nothing and inserts nothing into the index.
HeavyOps == {"link", "download", "extract", "transcribe", "write", "insert"}

C2_SkipExisting ==
    [][\A r \in Runs : \A i \in DOMAIN jobs[r] :
          (Finishes(r, i) /\ jobs[r][i].saw)
            => /\ jobs'[r][i].ops \cap HeavyOps = {}
               /\ index' = index
               /\ transcripts' = transcripts]_vars

C2_Witness ==
    \E r \in Runs : \E i \in DOMAIN jobs[r] :
        /\ run[r].source = DAILY
        /\ jobs[r][i].saw
        /\ jobs[r][i].st = "done"

\* C3: a batch in which exactly one item's transcription raises and every
\* other item succeeds ends READY; the other items have a transcript file
\* and an index entry, the failing item has neither.
TranscribeFailed(j) == Done(j) /\ "transcribe" \in j.ops /\ "write" \notin j.ops
Succeeded(j) == j.st = "done" /\ (j.saw \/ "write" \in j.ops)

C3_FailureIsolation ==
    [][\A r \in Runs : \A f \in DOMAIN jobs[r] :
          ( /\ run[r].pc = "awaiting"
            /\ run'[r].pc = "done"
            /\ TranscribeFailed(jobs[r][f])
            /\ \A i \in DOMAIN jobs[r] \ {f} : Succeeded(jobs[r][i]) )
            => /\ status'.state = READY
               /\ batch[r][f].key \notin transcripts
               /\ index.docs[batch[r][f].key] = 0
               /\ \A i \in DOMAIN jobs[r] \ {f} :
                     /\ batch[r][i].key \in transcripts
                     /\ "write" \in jobs[r][i].ops
                          => index.docs[batch[r][i].key] >= 1]_vars

\* C4 (as stated): every change of status.state is one of the listed
\* transitions; CREATING is followed by READY or ERROR, never by UPDATING.
Idle == {UNINITIALIZED, READY, ERROR}

OriginalTransition(old, new) ==
    \/ old = UNINITIALIZED /\ new = LOADING
    \/ old = LOADING /\ new \in {READY, UNINITIALIZED}
    \/ old \in Idle /\ new = CREATING /\ ~index.loaded
    \/ old \in Idle /\ new = UPDATING /\ index.loaded
    \/ old = CREATING /\ new \in {READY, ERROR}
    \/ old = UPDATING /\ new \in {READY, ERROR}

C4_OriginalTransitions ==
    [][status'.state # status.state
         => OriginalTransition(status.state, status'.state)]_vars

\* C4 (amended): with invocations made one at a time, every change of
\* status.state is one of the listed transitions, where CREATING is followed
\* by ERROR or, once create_index has installed the handle, by UPDATING;
\* CREATING -> READY never happens.
AmendedTransition(old, new) ==
    \/ old = UNINITIALIZED /\ new = LOADING
    \/ old = LOADING /\ new \in {READY, UNINITIALIZED}
    \/ old \in Idle /\ new = CREATING /\ ~index.loaded
    \/ old \in Idle /\ new = UPDATING /\ index.loaded
    \/ old = CREATING /\ new = ERROR
    \/ old = CREATING /\ new = UPDATING /\ ~index.loaded /\ index'.loaded
    \/ old = UPDATING /\ new \in {READY, ERROR}

C4_Transitions ==
    [][status'.state # status.state
         => AmendedTransition(status.state, status'.state)]_vars

C4_Witness ==
    \E r \in Runs :
        /\ run[r].entered = "create"
        /\ run[r].pc = "done"
        /\ status.state = READY

\* C5: when initialize_or_update has returned, no item job of its batch is
\* still running or still waiting for a slot.
C5_JoinBeforeStatus ==
    \A r \in Runs :
        run[r].pc = "done" => Running(jobs[r]) \cup Waiting(jobs[r]) = {}

\* C6: with ingestion started only through init_or_update_store, at most one
\* initialize_or_update execution is in progress at any time.
InProgress == {r \in Runs : run[r].pc \in {"listing", "awaiting"}}

C6_SingleFlight == Cardinality(InProgress) <= 1

\* C7: at most 5 item jobs of a batch are executing at any moment.
C7_PoolBound ==
    \A r \in Runs : Cardinality(Running(jobs[r])) <= 5

C7_Witness ==
    \E r \in Runs :
        /\ Cardinality(Running(jobs[r])) = 5
        /\ Waiting(jobs[r]) # {}

\* C8: an exception raised by listing, by an item job, by create_index or by
\* persisting the index makes initialize_or_update return normally with
\* status.state ERROR; it never propagates to the caller.
Raises(r) ==
    \/ /\ run[r].pc \in {"listing", "awaiting"}
       /\ run'[r] # run[r]
       /\ faults' > faults
    \/ /\ run[r].pc = "awaiting"
       /\ Raised(jobs[r]) # {}
       /\ run'[r] # run[r]
    \/ /\ run[r].pc = "awaiting"
       /\ run[r].phase = "create"
       /\ AllDone(r)
       /\ transcripts = {}
       /\ run'[r] # run[r]

C8_ErrorsBecomeStatus ==
    [][\A r \in Runs :
          Raises(r) => run'[r].pc = "done" /\ status'.state = ERROR]_vars

C8_Witness ==
    \E r \in Runs :
        /\ run[r].pc = "done"
        /\ run[r].phase = "create"
        /\ jobs[r] # << >>
        /\ AllDone(r)
        /\ status.state = ERROR

\* C9: query raises the not-ready error exactly when ready() is false; when
\* ready() is true it returns what the index engine returns, whatever
\* status.state is.
C9_QueryNotReady ==
    lastQuery.result # None
      => IF lastQuery.ready
           THEN lastQuery.result \in {"answer", "engine_error"}
           ELSE lastQuery.result = "not_ready"

C9_Witness ==
    /\ lastQuery.ready
    /\ lastQuery.result = "answer"
    /\ status.state = ERROR

\* C10: a second initialize_or_update(UPLOADS) run, with no file uploaded
\* since the first, writes no transcript, inserts no document and ends READY.
C10_RerunNoOp ==
    [][\A r, q \in Runs :
          ( /\ r < q
            /\ faults' = 0
            /\ run[r].source = UPLOADS /\ run[r].pc = "done"
            /\ run[q].source = UPLOADS /\ run[q].pc = "awaiting" )
            => /\ transcripts' = transcripts
               /\ index'.docs = index.docs
               /\ run'[q].pc = "done" => status'.state = READY]_vars

\* C11: an initialize_or_update(UPLOADS) run against a loaded index in which
\* no call fails processes every uploaded .mp4 and .mov file: when it ends,
\* every such file has a transcript, and none is left in the uploads
\* directory waiting to be processed.
Pending == {f \in uploadsDir : f.ext \in {"mp4", "mov"}}

C11_UploadsAllProcessed ==
    [][\A r \in Runs :
          ( /\ run[r].source = UPLOADS
            /\ run[r].entered = "update"
            /\ run[r].pc = "awaiting"
            /\ run'[r].pc = "done"
            /\ faults' = 0 )
            => /\ \A f \in Pending : f.key \in transcripts'
               /\ {f \in uploadsDir' : f.ext \in {"mp4", "mov"}} = {}]_vars

\* C12: ERROR is not terminal. An initialize_or_update call made while the
\* status is ERROR sets CREATING when there is no index handle and UPDATING
\* when there is one, and a call that got past index creation and whose
\* listing, item jobs and persistence all succeed ends READY.
Starts(r) == run[r].pc \in {"idle", "scheduled"} /\ run'[r].pc = "listing"

Returns(r) == run[r].pc \in {"listing", "awaiting"} /\ run'[r].pc = "done"

C12_ErrorNotTerminal ==
    [][\A r \in Runs :
          /\ (Starts(r) /\ status.state = ERROR)
               => status'.state = IF index.loaded THEN UPDATING ELSE CREATING
          /\ ( /\ Returns(r)
                /\ run[r].phase = "update"
                /\ faults' = faults
                /\ Raised(jobs[r]) = {} )
               => status'.state = READY]_vars

C12_Witness ==
    \E r, q \in Runs :
        /\ r < q
        /\ run[r].pc = "done" /\ run[r].phase = "create"
        /\ run[q].pc = "done" /\ run[q].entered = "create"
        /\ status.state = READY

\* C13: within one initialize_or_update call, transcriber.transcribe is
\* invoked at most once per item, also for an item whose transcription
\* failed.
C13_NoRetry ==
    \A r \in Runs : \A k \in Keys : transcribeCalls[r][k] <= 1

\* C14: load_index sets LOADING first and, whatever loading from disk does,
\* ends with status READY and the handle set or with status UNINITIALIZED
\* and no handle; it never ends with the status still LOADING.
C14_LoadOutcome ==
    [][/\ (loader = "init" /\ loader' # "init") => status'.state = LOADING
       /\ (loader = "loading" /\ loader' # "loading")
            => \/ status'.state = READY /\ index'.loaded
               \/ status'.state = UNINITIALIZED /\ ~index'.loaded]_vars

\* C15: the shutdown hook, run while item jobs of a batch are in flight,
\* completes (destroy returns) without waiting for them: the jobs are as
\* they were when the hook ends.
InFlight == \E r \in Runs : Running(jobs[r]) \cup Waiting(jobs[r]) # {}

C15_ShutdownCompletes ==
    [][(shutdown = "none" /\ shutdown' # "none" /\ InFlight)
         => shutdown' = "completed" /\ jobs' = jobs]_vars

\* C16: in every reachable state status.state is one of the six state
\* values and status.message is a string, never null.
C16_StatusWellFormed ==
    /\ status.state \in {UNINITIALIZED, LOADING, CREATING, UPDATING, READY,
                          ERROR}
    /\ status.message # None

\* C17: over any sequence of initialize_or_update runs, each started while
\* the status is not loading, creating or updating, the transcript of an
\* item is in the index at most once (by one bulk build or by one insert).
C17_IndexedOnce == \A k \in Keys : index.docs[k] <= 1

\* C18: a job that transcribes a new item writes the transcript file and
\* attempts the index insert if and only if the handle is loaded at that
\* moment; the file is written whether or not an insert is attempted and
\* whether or not it succeeds, and nothing is inserted without a write.
C18_WriteThenInsert ==
    [][\A r \in Runs : \A i \in DOMAIN jobs[r] :
          Finishes(r, i)
            => LET o == jobs'[r][i].ops
                   k == batch[r][i].key
               IN  /\ "insert" \in o => "write" \in o
                   /\ "write" \in o
                        => /\ k \in transcripts'
                           /\ "insert" \in o <=> index.loaded
                   /\ index'.docs # index.docs
                        => "insert" \in o /\ index.loaded]_vars

C18_Witness ==
    \E r \in Runs : \E i \in DOMAIN jobs[r] :
        /\ jobs[r][i].st = "raised"
        /\ {"write", "insert"} \subseteq jobs[r][i].ops
        /\ batch[r][i].key \in transcripts
        /\ index.docs[batch[r][i].key] = 0

\* C19: when an item job that reached the transcriber ends, by success, by
\* a transcription failure or by an insert failure, no scratch file made
\* for the item is left: no extracted audio, and for a cloud recording no
\* downloaded video.
C19_ScratchReleased ==
    [][\A r \in Runs : \A i \in DOMAIN jobs[r] :
          (Finishes(r, i) /\ "transcribe" \in jobs'[r][i].ops)
            => LET k == batch[r][i].key
               IN  /\ AudioFile(k) \notin uploadsDir'
                   /\ k \notin recordingsDir'
                   /\ run[r].source = DAILY
                        => VideoFile(k) \notin uploadsDir']_vars

\* C20: whenever the status is READY after an initialize_or_update run,
\* the persisted index holds every document of the in-memory index: the
\* index was persisted after the last insert.
C20_PersistedWhenReady ==
    (status.state = READY /\ \E r \in Runs : run[r].pc = "done")
      => /\ persisted.exists
         /\ \A k \in Keys : persisted.docs[k] >= index.docs[k]

\* C21: no rollback on failure. The handle is never unloaded; when an
\* initialize_or_update call ends in ERROR, a handle that was loaded when the
\* call started is still loaded, unchanged, and query still delegates to
\* it, and a call that started with no handle and failed during creation
\* leaves ready() false.
C21_NoRollback ==
    [][/\ index.loaded => index'.loaded
       /\ \A r \in Runs :
             (Returns(r) /\ status'.state = ERROR)
               => /\ run[r].entered = "update"
                       => /\ index.loaded /\ index'.loaded
                          /\ (query("answer"))' = "answer"
                  /\ run[r].phase = "create"
                       => /\ ~index'.loaded
                          /\ (query("answer"))' = "not_ready"]_vars

C21_Witness ==
    \E r \in Runs :
        /\ run[r].pc = "done"
        /\ run[r].entered = "update"
        /\ status.state = ERROR
        /\ index.loaded
        /\ index.docs # NoDocs

\* C22: the item jobs (transcribe_and_index_recording,
\* transcribe_and_index_file, save_and_index_transcript) leave status.state
\* and status.message as they are, whatever their outcome; the status
\* changes only in a step of load_index or of initialize_or_update itself.
C22_JobsKeepStatus ==
    [][/\ \A r \in Runs : \A i \in DOMAIN jobs[r] :
             Finishes(r, i) => status' = status
       /\ status' # status
            => \/ loader' # loader
               \/ \E r \in Runs : run'[r] # run[r]]_vars

C22_Witness ==
    \E r \in Runs : \E i \in DOMAIN jobs[r] :
        /\ run[r].pc = "awaiting"
        /\ jobs[r][i].st = "raised"
        /\ "insert" \in jobs[r][i].ops
        /\ status.state = UPDATING
        /\ status.message = "Updating index"

\* C23: a hung item job blocks only its own slot. With fewer than 5 jobs of
\* a batch hung, the batch does not complete: initialize_or_update is still
\* awaiting it and the status is still CREATING or UPDATING.
C23_HungBlocksOwnSlot ==
    \A r \in Runs :
        (Hung(jobs[r]) # {} /\ Cardinality(Hung(jobs[r])) < SemCapacity)
          => /\ run[r].pc = "awaiting"
             /\ status.state \in {CREATING, UPDATING}

\* C23, the part about the other items: under fair scheduling every item of
\* the batch is eventually dispatched and its job ends, unless it is one of
\* the jobs that hang.
C23_OthersComplete ==
    \A i \in 1..MaxItems :
        (i \in DOMAIN jobs[1])
          ~> (i \in DOMAIN jobs[1] /\ jobs[1][i].st \in {"done", "raised", "hung"})

\* C27: under fair scheduling, with every external call of an item job
\* returning or raising, an initialize_or_update invocation terminates with
\* status READY or ERROR, whatever the number of items (none, fewer than 5,
\* more than 5): the semaphore never deadlocks the batch.
C27_Terminates ==
    (run[1].pc = "listing")
      ~> (run[1].pc = "done" /\ status.state \in {READY, ERROR})

C27_Witness ==
    /\ run[1].pc = "done"
    /\ Len(jobs[1]) > SemCapacity
    /\ \A i \in DOMAIN jobs[1] : "write" \in jobs[1][i].ops
    /\ status.state = READY

\* C24: a job that transcribes a cloud recording without a transcript
\* resolves the access link; with a transcriber that requires local audio
\* (Whisper) the audio file exists when transcribe is called, downloaded and
\* extracted by the job if it was missing, and its path is passed; with one
\* that does not (Deepgram) nothing is downloaded or extracted, nothing is
\* written to the media directories and no audio path is passed.
C24_LocalAudio ==
    [][\A r \in Runs : \A i \in DOMAIN jobs[r] :
          ( /\ Finishes(r, i)
            /\ run[r].source = DAILY
            /\ "transcribe" \in jobs'[r][i].ops )
            => LET o == jobs'[r][i].ops
                   k == batch[r][i].key
               IN  /\ ~jobs[r][i].saw
                   /\ "link" \in o
                   /\ IF transcriber = "whisper"
                        THEN /\ "audio_path" \in o
                             /\ k \notin recordingsDir
                                  => {"download", "extract"} \subseteq o
                             /\ k \in recordingsDir
                                  => o \cap {"download", "extract"} = {}
                        ELSE /\ o \cap {"download", "extract", "audio_path"} = {}
                             /\ uploadsDir' = uploadsDir
                             /\ recordingsDir' = recordingsDir]_vars

C24_Witness ==
    /\ transcriber = "whisper"
    /\ \E r \in Runs : \E i \in DOMAIN jobs[r] :
          /\ run[r].source = DAILY
          /\ jobs[r][i].st = "done"
          /\ {"download", "extract", "transcribe", "audio_path", "write"}
                \subseteq jobs[r][i].ops

\* C25: whenever status.state is READY, every transcript file in the
\* transcripts directory has a document in the index, also after runs that
\* ended in ERROR because an index insert raised (the index found on disk at
\* startup holds a document for every transcript file).
C25_TranscriptsIndexed ==
    status.state = READY
      => \A k \in transcripts : index.loaded /\ index.docs[k] >= 1

\* C26: an uploaded video is never lost unprocessed. When an UPLOADS item
\* job ends, the video file is gone from the uploads directory only if a
\* transcript file for it exists; after a failed transcription the video is
\* still there.
C26_VideoKept ==
    [][\A r \in Runs : \A i \in DOMAIN jobs[r] :
          (Finishes(r, i) /\ run[r].source = UPLOADS)
            => LET v == batch[r][i]
               IN  (v \in uploadsDir /\ v \notin uploadsDir')
                     => v.key \in transcripts']_vars

\* C28: in every reachable state, status.state = READY implies that ready()
\* is true: an index handle is loaded. The converse does not hold: the
\* handle stays loaded while the state is UPDATING or ERROR.
C28_ReadyHasHandle == status.state = READY => ready

C28_Witness ==
    \E r \in Runs :
        /\ run[r].pc = "done"
        /\ run[r].entered = "create"
        /\ status.state = READY
        /\ ready
        /\ \E k \in RecKeys : index.docs[k] = 1

====
